---- MODULE Spec2Model ----
(***************************************************************************)
(* Model of the YoLearn tutor orchestrator (src/orchestrator_graph.py,     *)
(* src/tools.py, src/context.py): one turn is the LangGraph pipeline       *)
(* planner_node -> executor_node -> formatter_node, started and finished   *)
(* by run_orchestrator_turn.                                               *)
(*                                                                         *)
(* Python values are tagged records: a str is PStr(atom) when only its      *)
(* identity matters and PMsg(words) when its characters matter (the user    *)
(* message: words of the Vocabulary joined by single spaces).              *)
(***************************************************************************)
EXTENDS Integers, Sequences, FiniteSets, TLC

VARIABLES
    pc,        \* per turn: position of run_orchestrator_turn / the graph
    request,   \* per turn: the user_message argument
    agent,     \* per turn: what _agent_executor.invoke does when called
    state,     \* per turn: the OrchestratorState threaded through the graph
    result,    \* per turn: the dict returned by run_orchestrator_turn
    calls,     \* per turn: how often each function has been entered
    passed     \* per turn: the `data` object the tool function computed on

vars == <<pc, request, agent, state, result, calls, passed>>

Turns == {"t1", "t2"}

(***************************************************************************)
(* Python values                                                           *)
(***************************************************************************)
None == [t |-> "none"]
PStr(s) == [t |-> "str", s |-> s]
PMsg(w) == [t |-> "msg", w |-> w]
PInt(i) == [t |-> "int", i |-> i]
PBool(b) == [t |-> "bool", b |-> b]
PList(items) == [t |-> "list", items |-> items]
PDict(d) == [t |-> "dict", d |-> d]
EmptyMap == [k \in {} |-> None]

\* bool(v): the truth value Python's `or`, `if` and `not` give a value
Truthy(v) ==
    CASE v.t = "none" -> FALSE
      [] v.t = "str" -> v.s # ""
      [] v.t = "msg" -> v.w # <<>>
      [] v.t = "int" -> v.i # 0
      [] v.t = "bool" -> v.b
      [] v.t = "list" -> v.items # <<>>
      [] v.t = "dict" -> DOMAIN v.d # {}
      [] v.t = "text" -> v.toks # <<>>
      [] OTHER -> TRUE

\* a or b
Or(a, b) == IF Truthy(a) THEN a ELSE b

\* d.get(key) on a Python dict value
Get(dv, key) == IF key \in DOMAIN dv.d THEN dv.d[key] ELSE None

\* hash(v) is defined: dict.get(v) raises TypeError for a list or a dict
Hashable(v) == v.t \notin {"list", "dict"}

(***************************************************************************)
(* Characters of the user message                                          *)
(***************************************************************************)
MaxWords == 2

Vocabulary == {"Notes", "quiz", "explain", "0", "99", "hi"}

\* the characters of each word of the vocabulary
Chars(w) ==
    CASE w = "Notes" -> <<"N", "o", "t", "e", "s">>
      [] w = "quiz" -> <<"q", "u", "i", "z">>
      [] w = "QUIZ" -> <<"Q", "U", "I", "Z">>
      [] w = "explain" -> <<"e", "x", "p", "l", "a", "i", "n">>
      [] w = "simple" -> <<"s", "i", "m", "p", "l", "e">>
      [] w = "detailed" -> <<"d", "e", "t", "a", "i", "l", "e", "d">>
      [] w = "basic" -> <<"b", "a", "s", "i", "c">>
      [] w = "advanced" -> <<"a", "d", "v", "a", "n", "c", "e", "d">>
      [] w = "confused" -> <<"c", "o", "n", "f", "u", "s", "e", "d">>
      [] w = "hi" -> <<"h", "i">>
      [] w = "0" -> <<"0">>
      [] w = "7" -> <<"7">>
      [] w = "12" -> <<"1", "2">>
      [] w = "99" -> <<"9", "9">>
      [] w = "123" -> <<"1", "2", "3">>
      [] w = "a1" -> <<"a", "1">>

RECURSIVE Text(_)
\* the characters of a message: its words joined by single spaces
Text(words) ==
    IF words = <<>> THEN <<>>
    ELSE IF Len(words) = 1 THEN Chars(words[1])
    ELSE Chars(words[1]) \o <<" ">> \o Text(Tail(words))

UpperCase == <<"A", "B", "C", "D", "E", "F", "G", "H", "I", "J", "K", "L", "M",
               "N", "O", "P", "Q", "R", "S", "T", "U", "V", "W", "X", "Y", "Z">>
LowerCase == <<"a", "b", "c", "d", "e", "f", "g", "h", "i", "j", "k", "l", "m",
               "n", "o", "p", "q", "r", "s", "t", "u", "v", "w", "x", "y", "z">>
Digits == <<"0", "1", "2", "3", "4", "5", "6", "7", "8", "9">>

LowerChar(c) ==
    IF \E i \in DOMAIN UpperCase : UpperCase[i] = c
    THEN LowerCase[CHOOSE i \in DOMAIN UpperCase : UpperCase[i] = c]
    ELSE c

\* str.lower()
Lower(s) == [i \in DOMAIN s |-> LowerChar(s[i])]

\* k in s
Contains(s, k) ==
    \E i \in 1..(Len(s) - Len(k) + 1) : SubSeq(s, i, i + Len(k) - 1) = k

IsDigit(c) == \E i \in DOMAIN Digits : Digits[i] = c
DigitValue(c) == (CHOOSE i \in DOMAIN Digits : Digits[i] = c) - 1
\* \w of the regular expressions
IsWordChar(c) ==
    \/ IsDigit(c)
    \/ c = "_"
    \/ \E i \in DOMAIN LowerCase : LowerCase[i] = c \/ UpperCase[i] = c

\* \b between s[i-1] and s[i] (i in 1..Len(s)+1)
Boundary(s, i) ==
    LET before == i > 1 /\ IsWordChar(s[i - 1])
        after == i <= Len(s) /\ IsWordChar(s[i])
    IN before # after

\* the match of (\d{1,2}) at position i without the two \b
MatchLenAt_NoBoundary(s, i) ==
    IF ~IsDigit(s[i]) THEN 0
    ELSE IF i + 1 <= Len(s) /\ IsDigit(s[i + 1]) THEN 2
    ELSE 1

\* the length with which \b(\d{1,2})\b matches at position i, 0 if it does not
MatchLenAt(s, i) ==
    IF ~Boundary(s, i) \/ ~IsDigit(s[i]) THEN 0
    ELSE IF i + 1 <= Len(s) /\ IsDigit(s[i + 1]) /\ Boundary(s, i + 2) THEN 2
    ELSE IF Boundary(s, i + 1) THEN 1
    ELSE 0

\* re.search(r"\b(\d{1,2})\b", s): int(m.group(1)), or -1 when m is None
SearchCount(s) ==
    LET hits == {i \in DOMAIN s : MatchLenAt(s, i) > 0}
    IN IF hits = {} THEN -1
       ELSE LET i == CHOOSE h \in hits : \A g \in hits : h <= g
            IN IF MatchLenAt(s, i) = 2
               THEN 10 * DigitValue(s[i]) + DigitValue(s[i + 1])
               ELSE DigitValue(s[i])

Max(a, b) == IF a >= b THEN a ELSE b
Min(a, b) == IF a <= b THEN a ELSE b

(***************************************************************************)
(* src/context.py                                                          *)
(***************************************************************************)
MOCK_STUDENT_CONTEXT ==
    [last_topic |-> PStr("Photosynthesis"),
     mastery_score |-> PInt(4),
     preferred_style |-> PStr("Socratic"),
     subject |-> PStr("Biology")]

\* MOCK_STUDENT_CONTEXT.get(key, default)
ContextGet(key, default) ==
    IF key \in DOMAIN MOCK_STUDENT_CONTEXT THEN MOCK_STUDENT_CONTEXT[key] ELSE default

(***************************************************************************)
(* rule_based_planner                                                      *)
(***************************************************************************)
NoteKeywords ==
    {<<"n", "o", "t", "e">>, <<"s", "u", "m", "m", "a", "r", "y">>,
     <<"o", "u", "t", "l", "i", "n", "e">>, <<"s", "t", "u", "d", "y">>}
FlashcardKeywords ==
    {<<"f", "l", "a", "s", "h", "c", "a", "r", "d">>, <<"q", "u", "i", "z">>,
     <<"p", "r", "a", "c", "t", "i", "c", "e">>}
ExplainKeywords ==
    {<<"e", "x", "p", "l", "a", "i", "n">>, <<"d", "e", "f", "i", "n", "e">>,
     <<"d", "e", "s", "c", "r", "i", "b", "e">>, <<"c", "l", "a", "r", "i", "f", "y">>}
KwConfuse == <<"c", "o", "n", "f", "u", "s", "e">>
KwConfused == <<"c", "o", "n", "f", "u", "s", "e", "d">>
KwSimple == <<"s", "i", "m", "p", "l", "e">>
KwBasic == <<"b", "a", "s", "i", "c">>
KwAdvanced == <<"a", "d", "v", "a", "n", "c", "e", "d">>
KwDetailed == <<"d", "e", "t", "a", "i", "l", "e", "d">>

\* any(k in s for k in keywords)
AnyIn(keywords, s) == \E k \in keywords : Contains(s, k)

DefaultCount == 5
CountMin == 1
CountMax == 20

\* the clamp without its upper end
ClampCount_NoUpper(count) == Max(CountMin, count)

\* max(1, min(count, 20))
ClampCount(count) == Max(CountMin, Min(count, CountMax))

\* the count of the flashcard branch: 5, or the first \b\d{1,2}\b of s
FlashcardCount(s) ==
    LET m == SearchCount(s)
    IN IF m >= 0 THEN m ELSE DefaultCount

\* the depth with the two tests in the other order: "basic" overrides
ExplainDepth_BasicWins(s) ==
    LET depth1 == IF Contains(s, KwAdvanced) \/ Contains(s, KwDetailed)
                  THEN "advanced" ELSE "intermediate"
    IN IF Contains(s, KwSimple) \/ Contains(s, KwBasic)
       THEN "basic" ELSE depth1

\* the depth of the explainer branch
ExplainDepth(s) ==
    LET depth1 == IF Contains(s, KwSimple) \/ Contains(s, KwBasic)
                  THEN "basic" ELSE "intermediate"
    IN IF Contains(s, KwAdvanced) \/ Contains(s, KwDetailed)
       THEN "advanced" ELSE depth1

\* the planner with the flashcard rule tried before the note rule
rule_based_planner_FlashcardFirst(user_input) ==
    LET s == Lower(Text(user_input.w))
    IN IF AnyIn(FlashcardKeywords, s) THEN
           [tool_name |-> PStr("flashcard_generator"),
            tool_args |-> PDict(
               [topic |-> user_input,
                count |-> PInt(ClampCount(FlashcardCount(s))),
                difficulty |-> PStr("medium"),
                subject |-> ContextGet("subject", PStr("General"))])]
       ELSE IF AnyIn(NoteKeywords, s) THEN
           [tool_name |-> PStr("note_maker"),
            tool_args |-> PDict(
               [topic |-> user_input,
                note_taking_style |-> PStr("structured"),
                subject |-> ContextGet("subject", PStr("General")),
                include_examples |-> PBool(TRUE),
                include_analogies |->
                    PBool(Contains(s, KwConfuse) \/ Contains(s, KwConfused))])]
       ELSE IF AnyIn(ExplainKeywords, s) THEN
           [tool_name |-> PStr("concept_explainer"),
            tool_args |-> PDict(
               [concept_to_explain |-> user_input,
                desired_depth |-> PStr(ExplainDepth(s)),
                current_topic |-> ContextGet("last_topic", PStr("General"))])]
       ELSE [tool_name |-> None, tool_args |-> None]

rule_based_planner(user_input) ==
    LET s == Lower(Text(user_input.w))
    IN IF AnyIn(NoteKeywords, s) THEN
           [tool_name |-> PStr("note_maker"),
            tool_args |-> PDict(
               [topic |-> user_input,
                note_taking_style |-> PStr("structured"),
                subject |-> ContextGet("subject", PStr("General")),
                include_examples |-> PBool(TRUE),
                include_analogies |->
                    PBool(Contains(s, KwConfuse) \/ Contains(s, KwConfused))])]
       ELSE IF AnyIn(FlashcardKeywords, s) THEN
           [tool_name |-> PStr("flashcard_generator"),
            tool_args |-> PDict(
               [topic |-> user_input,
                count |-> PInt(ClampCount(FlashcardCount(s))),
                difficulty |-> PStr("medium"),
                subject |-> ContextGet("subject", PStr("General"))])]
       ELSE IF AnyIn(ExplainKeywords, s) THEN
           [tool_name |-> PStr("concept_explainer"),
            tool_args |-> PDict(
               [concept_to_explain |-> user_input,
                desired_depth |-> PStr(ExplainDepth(s)),
                current_topic |-> ContextGet("last_topic", PStr("General"))])]
       ELSE [tool_name |-> None, tool_args |-> None]

(***************************************************************************)
(* src/tools.py: enums, input schemas, validation, tool functions          *)
(***************************************************************************)
NoteStyleEnum == {"outline", "bullet_points", "narrative", "structured"}
FlashcardDifficultyEnum == {"easy", "medium", "hard"}
ExplanationDepthEnum == {"basic", "intermediate", "advanced", "comprehensive"}

NoDefault == [t |-> "nodefault"]
Field(name, type, allowed, default) ==
    [name |-> name, type |-> type, allowed |-> allowed, default |-> default]

NoteMakerInput ==
    {Field("topic", "str", {}, NoDefault),
     Field("note_taking_style", "enum", NoteStyleEnum, NoDefault),
     Field("subject", "str", {}, NoDefault),
     Field("include_examples", "bool", {}, PBool(TRUE)),
     Field("include_analogies", "bool", {}, PBool(FALSE))}

FlashcardGeneratorInput ==
    {Field("topic", "str", {}, NoDefault),
     Field("count", "int", {}, NoDefault),
     Field("difficulty", "enum", FlashcardDifficultyEnum, NoDefault),
     Field("subject", "str", {}, NoDefault)}

ConceptExplainerInput ==
    {Field("concept_to_explain", "str", {}, NoDefault),
     Field("desired_depth", "enum", ExplanationDepthEnum, NoDefault),
     Field("current_topic", "str", {}, NoDefault)}

\* the registry: tool name -> args_schema of the tool
TOOL_MAP ==
    [note_maker |-> NoteMakerInput,
     flashcard_generator |-> FlashcardGeneratorInput,
     concept_explainer |-> ConceptExplainerInput]

\* the decimal strings the inputs use, with their int() value
NumericStrings == [n \in {"0", "3", "21"} |->
                     CASE n = "0" -> 0 [] n = "3" -> 3 [] n = "21" -> 21]

\* the spellings of the inputs that differ from an enum value by case only
LowerSpelling(s) ==
    CASE s = "Easy" -> "easy" [] s = "Outline" -> "outline" [] OTHER -> s

\* an enum lookup that ignores case
EnumMember_IgnoreCase(allowed, s) == LowerSpelling(s) \in allowed

\* s is the value of a member of the Enum class (the match is exact)
EnumMember(allowed, s) == s \in allowed

\* pydantic's conversion of one supplied value to the declared field type:
\* [ok, v]. Only the conversions on which pydantic 1 and 2 agree are used.
Coerce(field, v) ==
    CASE field.type = "str" ->
           [ok |-> v.t \in {"str", "msg", "fstr"}, v |-> v]
      [] field.type = "int" ->
           IF v.t = "int" THEN [ok |-> TRUE, v |-> v]
           ELSE IF v.t = "str" /\ v.s \in DOMAIN NumericStrings
                THEN [ok |-> TRUE, v |-> PInt(NumericStrings[v.s])]
           ELSE [ok |-> FALSE, v |-> v]
      [] field.type = "bool" ->
           IF v.t = "bool" THEN [ok |-> TRUE, v |-> v]
           ELSE IF v.t = "int" /\ v.i \in {0, 1}
                THEN [ok |-> TRUE, v |-> PBool(v.i = 1)]
           ELSE [ok |-> FALSE, v |-> v]
      [] field.type = "enum" ->
           [ok |-> v.t = "str" /\ EnumMember(field.allowed, v.s), v |-> v]

\* validate_count checking the lower end only
validate_count_NoUpper(v) == CountMin <= v

\* FlashcardGeneratorInput.validate_count: raises unless 1 <= v <= 20
validate_count(v) == CountMin <= v /\ v <= CountMax

\* the @validator functions of a schema, applied to a converted field
FieldValidator(schema, field, v) ==
    IF schema = FlashcardGeneratorInput /\ field.name = "count"
    THEN validate_count(v.i)
    ELSE TRUE

\* Schema(**args): [ok, data, errs] - the validated object, or the fields
\* pydantic's ValidationError names
Validate(schema, args) ==
    IF args.t # "dict"
    THEN [ok |-> FALSE, data |-> EmptyMap, errs |-> {"__root__"}]
    ELSE
      LET names == {f.name : f \in schema}
          fieldOf(n) == CHOOSE f \in schema : f.name = n
          supplied(n) == n \in DOMAIN args.d
          conv(n) == Coerce(fieldOf(n), args.d[n])
          bad(n) ==
              IF supplied(n)
              THEN \/ ~conv(n).ok
                   \/ ~FieldValidator(schema, fieldOf(n), conv(n).v)
              ELSE fieldOf(n).default = NoDefault
          errs == {n \in names : bad(n)}
          value(n) == IF supplied(n) THEN conv(n).v ELSE fieldOf(n).default
      IN [ok |-> errs = {},
          data |-> IF errs = {} THEN [n \in names |-> value(n)] ELSE EmptyMap,
          errs |-> errs]

\* f-strings and other built text: a non-empty str made from a template
Fmt(template, args) == [t |-> "fstr", fmt |-> template, args |-> args]

\* the three tool functions, on the validated `data`
ToolCompute(name, data) ==
    CASE name = "note_maker" ->
           PDict([result |->
               [topic |-> data["topic"],
                style |-> data["note_taking_style"],
                examples |-> data["include_examples"],
                analogies |-> data["include_analogies"]]])
      [] name = "flashcard_generator" ->
           PDict([result |->
               [flashcards |->
                    [i \in 1..data["count"].i |->
                        [q |-> Fmt("What is point {i} about {topic}?",
                                   <<PInt(i), data["topic"]>>),
                         a |-> Fmt("Answer {i}.", <<PInt(i)>>)]],
                difficulty |-> data["difficulty"]]])
      [] name = "concept_explainer" ->
           PDict([result |->
               [concept |-> data["concept_to_explain"],
                depth |-> data["desired_depth"],
                explanation |-> Fmt("{depth.title()} explanation of {concept}.",
                    <<data["desired_depth"], data["concept_to_explain"]>>)]])

\* tool_func.invoke(args): the input is validated against args_schema, then
\* the function builds `data` from it and computes; a failed validation raises
ToolInvoke(name, args) ==
    LET v == Validate(TOOL_MAP[name], args)
    IN IF v.ok
       THEN [raised |-> FALSE, output |-> ToolCompute(name, v.data),
             data |-> PDict(v.data), error |-> None]
       ELSE [raised |-> TRUE, output |-> None, data |-> None,
             error |-> Fmt("{n} validation errors for {schema}",
                           <<PStr(name), [t |-> "fields", names |-> v.errs]>>)]

(***************************************************************************)
(* The agent's output and its decoding in planner_node                     *)
(***************************************************************************)
\* A text output is a sequence of lexical items: a ``` fence, a language
\* tag, whitespace, prose, or the text of one JSON value.
Fence == [k |-> "fence"]
Lang(s) == [k |-> "lang", s |-> s]
Space == [k |-> "space"]
Prose == [k |-> "prose"]
Json(v) == [k |-> "json", v |-> v]
PText(toks) == [t |-> "text", toks |-> toks]

\* the spellings re.IGNORECASE lets (?:json) match
JsonTagSpellings == {"json", "JSON", "Json"}

\* the ``` or ```json match that covers item i of the text, if any
InFence(s, i) ==
    \/ s[i] = Fence
    \/ /\ s[i].k = "lang"
       /\ s[i].s \in JsonTagSpellings
       /\ i > 1
       /\ s[i - 1] = Fence

RECURSIVE StripFrom(_, _)
StripFrom(s, i) ==
    IF i > Len(s) THEN <<>>
    ELSE (IF InFence(s, i) THEN <<>> ELSE <<s[i]>>) \o StripFrom(s, i + 1)

\* re.sub(r"```(?:json)?", "", output, flags=re.IGNORECASE).replace("```", "")
StripFences(toks) == StripFrom(toks, 1)

\* str.strip()
RECURSIVE Strip(_)
Strip(toks) ==
    IF toks = <<>> THEN <<>>
    ELSE IF Head(toks) = Space THEN Strip(Tail(toks))
    ELSE IF toks[Len(toks)] = Space THEN Strip(SubSeq(toks, 1, Len(toks) - 1))
    ELSE toks

\* json.loads(clean_output): [ok, v]; it raises unless the text is one value
JsonLoads(toks) ==
    IF Len(toks) = 1 /\ toks[1].k = "json"
    THEN [ok |-> TRUE, v |-> toks[1].v]
    ELSE [ok |-> FALSE, v |-> None]

NotFound == [found |-> FALSE, name |-> None, args |-> None]

\* the tool name of the parsed text read from tool_name and name only
TextName_NoToolKey(parsed) ==
    Or(Get(parsed, "tool_name"), Get(parsed, "name"))

\* line 161: the tool name of the parsed text
TextName(parsed) ==
    Or(Or(Get(parsed, "tool_name"), Get(parsed, "tool")), Get(parsed, "name"))

\* the arguments of the parsed text, looked up in the order of the dict branch
TextArgs_ArgsFirst(parsed) ==
    Or(Or(Or(Or(Get(parsed, "args"),
                Get(parsed, "tool_args")),
             Get(parsed, "tool_input")),
          Get(parsed, "parameters")),
       PDict(EmptyMap))

\* lines 162-168: the arguments of the parsed text
TextArgs(parsed) ==
    Or(Or(Or(Or(Get(parsed, "tool_args"),
                Get(parsed, "args")),
             Get(parsed, "tool_input")),
          Get(parsed, "parameters")),
       PDict(EmptyMap))

\* line 179: the tool name of a mapping output
DictName(output) == Or(Get(output, "name"), Get(output, "tool_name"))

\* lines 180-186: the arguments of a mapping output
DictArgs(output) ==
    Or(Or(Or(Or(Get(output, "args"),
                Get(output, "tool_args")),
             Get(output, "tool_input")),
          Get(output, "parameters")),
       PDict(EmptyMap))

\* lines 151-175: the str branch. found = the branch returned FOUND_TOOL;
\* a failed parse or a .get on a value that is no dict is swallowed
DecodeText(output) ==
    LET parsed == JsonLoads(Strip(StripFences(output.toks)))
    IN IF ~parsed.ok \/ parsed.v.t # "dict" THEN NotFound
       ELSE IF Truthy(TextName(parsed.v))
       THEN [found |-> TRUE, name |-> TextName(parsed.v), args |-> TextArgs(parsed.v)]
       ELSE NotFound

\* the dict branch without the test of line 187: any name is taken
DecodeDict_AcceptsEmptyName(output) ==
    IF DictName(output) # None
    THEN [found |-> TRUE, name |-> DictName(output), args |-> DictArgs(output)]
    ELSE NotFound

\* lines 178-191: the dict branch
DecodeDict(output) ==
    IF Truthy(DictName(output))
    THEN [found |-> TRUE, name |-> DictName(output), args |-> DictArgs(output)]
    ELSE NotFound

\* lines 148-194 on the value the agent returned: result.get("output") or
\* result, then the str branch, then the dict branch, else ValueError
Decode(agentResult) ==
    LET output == Or(Get(agentResult, "output"), agentResult)
    IN IF output.t = "text" THEN DecodeText(output)
       ELSE IF output.t = "dict" THEN DecodeDict(output)
       ELSE NotFound

ValueErrorText == PStr("LLM failed to produce structured tool call.")

(***************************************************************************)
(* OrchestratorState and the three nodes                                   *)
(***************************************************************************)
\* a key that is not set reads as None through state.get(key)
EmptyState ==
    [user_message |-> None, tool_name |-> None, tool_args |-> None,
     tool_output |-> None, status |-> None, final_response |-> None,
     llm_raw |-> None, fallback_used |-> None, error |-> None]

NoCalls ==
    [run |-> 0, planner |-> 0, agent |-> 0, rule_based |-> 0, executor |-> 0,
     lookup |-> 0, tool |-> 0, formatter |-> 0]

NoToolMessage == PStr("Unable to determine a suitable tool.")
CouldNotMessage == PStr("Could not complete request.")

\* str(result)
Repr(v) == [t |-> "repr", of |-> v]

\* run_orchestrator_turn keeping one state record for all turns
Invoke_SharedState(t) ==
    /\ pc[t] = "call"
    /\ state' = [u \in Turns |-> [EmptyState EXCEPT !.user_message = request[t]]]
    /\ calls' = [calls EXCEPT ![t].run = @ + 1]
    /\ pc' = [pc EXCEPT ![t] = "planner"]
    /\ UNCHANGED <<request, agent, result, passed>>

\* run_orchestrator_turn, lines 291-292: the graph is entered at the planner
Invoke(t) ==
    /\ pc[t] = "call"
    /\ state' = [state EXCEPT ![t] = [EmptyState EXCEPT !.user_message = request[t]]]
    /\ calls' = [calls EXCEPT ![t].run = @ + 1]
    /\ pc' = [pc EXCEPT ![t] = "planner"]
    /\ UNCHANGED <<request, agent, result, passed>>

\* lines 170-173 and 188-191: the model named a tool
FoundState(st, name, args) ==
    [st EXCEPT !.tool_name = name,
               !.tool_args = args,
               !.status = PStr("FOUND_TOOL")]

\* the except branch keeping the arguments already in the state when the
\* heuristic planner has none
FallbackState_KeepsArgs(st, user_input, e) ==
    LET fb == rule_based_planner(user_input)
    IN [st EXCEPT !.tool_name = fb.tool_name,
                  !.tool_args = Or(fb.tool_args, Or(@, st.llm_raw)),
                  !.fallback_used = PBool(TRUE),
                  !.status = IF Truthy(fb.tool_name)
                             THEN PStr("FOUND_TOOL") ELSE PStr("NO_TOOL"),
                  !.error = e]

\* the except branch choosing the explainer when no rule matches
FallbackState_DefaultsToExplainer(st, user_input, e) ==
    LET heuristic == rule_based_planner(user_input)
        fb == IF Truthy(heuristic.tool_name) THEN heuristic
              ELSE [tool_name |-> PStr("concept_explainer"),
                    tool_args |-> PDict(
                       [concept_to_explain |-> user_input,
                        desired_depth |-> PStr("intermediate"),
                        current_topic |-> ContextGet("last_topic", PStr("General"))])]
    IN [st EXCEPT !.tool_name = fb.tool_name,
                  !.tool_args = fb.tool_args,
                  !.fallback_used = PBool(TRUE),
                  !.status = PStr("FOUND_TOOL"),
                  !.error = e]

\* lines 196-204: the except branch, e = str of the exception caught
FallbackState(st, user_input, e) ==
    LET fb == rule_based_planner(user_input)
    IN [st EXCEPT !.tool_name = fb.tool_name,
                  !.tool_args = fb.tool_args,
                  !.fallback_used = PBool(TRUE),
                  !.status = IF Truthy(fb.tool_name)
                             THEN PStr("FOUND_TOOL") ELSE PStr("NO_TOOL"),
                  !.error = e]

\* the state planner_node returns from the state it is given and from what
\* _agent_executor.invoke does
PlannerResult(st, outcome) ==
    LET user_input == st.user_message
        returned == outcome.kind = "return"
        res == PDict([input |-> user_input,
                      output |-> IF returned THEN outcome.output ELSE None])
        dec == IF returned THEN Decode(res) ELSE NotFound
        st1 == [st EXCEPT !.fallback_used = PBool(FALSE),
                          !.llm_raw = IF returned THEN Repr(res) ELSE @]
        e == IF returned THEN ValueErrorText ELSE outcome.error
    IN IF dec.found
       THEN FoundState(st1, dec.name, dec.args)
       ELSE FallbackState(st1, user_input, e)

planner_node(t) ==
    /\ pc[t] = "planner"
    /\ state' = [state EXCEPT ![t] = PlannerResult(state[t], agent[t])]
    /\ calls' = [calls EXCEPT ![t].planner = @ + 1,
                              ![t].agent = @ + 1,
                              ![t].rule_based =
                                  IF state'[t].fallback_used = PBool(TRUE)
                                  THEN @ + 1 ELSE @]
    /\ pc' = [pc EXCEPT ![t] = "executor"]
    /\ UNCHANGED <<request, agent, result, passed>>

\* TOOL_MAP.get(name) finds a tool
Registered(name) == name.t = "str" /\ name.s \in DOMAIN TOOL_MAP

\* the unknown-tool branch leaving final_response to the formatter
UnknownToolState_NoMessage(st, name) ==
    [st EXCEPT !.status = PStr("UNKNOWN_TOOL")]

\* lines 222-223: the tool is not in the registry
UnknownToolState(st, name) ==
    [st EXCEPT !.status = PStr("UNKNOWN_TOOL"),
               !.final_response = Fmt("Unknown tool: {name}", <<name>>)]

\* executor_node: [raised, st, data]; raised = an exception left the node
ExecutorResult(st) ==
    LET name == st.tool_name
        args == Or(st.tool_args, PDict(EmptyMap))
    IN IF ~Truthy(name) THEN
           [raised |-> FALSE, data |-> None,
            st |-> [st EXCEPT !.status = PStr("NO_TOOL"),
                              !.final_response = NoToolMessage]]
       ELSE IF ~Hashable(name) THEN
           [raised |-> TRUE, data |-> None, st |-> st]
       ELSE IF ~Registered(name) THEN
           [raised |-> FALSE, data |-> None,
            st |-> UnknownToolState(st, name)]
       ELSE LET r == ToolInvoke(name.s, args)
            IN IF r.raised
               THEN [raised |-> FALSE, data |-> None,
                     st |-> [st EXCEPT !.status = PStr("TOOL_ERROR"),
                                       !.error = r.error,
                                       !.final_response =
                                           Fmt("Tool execution failed: {e}", <<r.error>>)]]
               ELSE [raised |-> FALSE, data |-> r.data,
                     st |-> [st EXCEPT !.tool_output = r.output,
                                       !.status = PStr("TOOL_SUCCESS")]]

executor_node(t) ==
    /\ pc[t] = "executor"
    /\ LET r == ExecutorResult(state[t])
           name == state[t].tool_name
       IN /\ state' = [state EXCEPT ![t] = r.st]
          /\ passed' = [passed EXCEPT ![t] = r.data]
          /\ calls' = [calls EXCEPT
                 ![t].executor = @ + 1,
                 ![t].lookup = IF Truthy(name) THEN @ + 1 ELSE @,
                 ![t].tool = IF r.data # None THEN @ + 1 ELSE @]
          /\ pc' = [pc EXCEPT ![t] = IF r.raised THEN "raised" ELSE "formatter"]
    /\ UNCHANGED <<request, agent, result>>

\* args.get(key, default)
GetOr(dv, key, default) == IF key \in DOMAIN dv.d THEN dv.d[key] ELSE default

\* the message of the TOOL_SUCCESS branch, lines 247-257
SuccessMessage(name, args) ==
    IF name = PStr("note_maker")
    THEN Fmt("Here are your **{topic}** notes (structured). Ready to start?",
             <<GetOr(args, "topic", PStr("your topic"))>>)
    ELSE IF name = PStr("flashcard_generator")
    THEN Fmt("Generated {count} flashcards on {topic}.",
             <<GetOr(args, "count", PInt(DefaultCount)),
               GetOr(args, "topic", PStr("this topic"))>>)
    ELSE IF name = PStr("concept_explainer")
    THEN Fmt("Explanation for **{concept}** ready!",
             <<GetOr(args, "concept_to_explain", PStr("the concept"))>>)
    ELSE Fmt("Tool {name} executed successfully.", <<name>>)

\* formatter_node with a last branch that reports success
FormatterResult_DefaultIsSuccess(st) ==
    LET status == st.status
    IN IF status = PStr("TOOL_SUCCESS") THEN
           IF st.tool_args.t # "dict"
           THEN [raised |-> TRUE, st |-> st]
           ELSE [raised |-> FALSE,
                 st |-> [st EXCEPT
                     !.final_response = SuccessMessage(st.tool_name, st.tool_args),
                     !.status = PStr("SUCCESS")]]
       ELSE IF status \in {PStr("NO_TOOL"), PStr("LLM_ERROR")} THEN
           [raised |-> FALSE, st |-> [st EXCEPT !.final_response = NoToolMessage]]
       ELSE IF status = PStr("TOOL_ERROR") THEN
           [raised |-> FALSE, st |-> st]
       ELSE [raised |-> FALSE,
             st |-> [st EXCEPT !.final_response = Or(@, CouldNotMessage),
                              !.status = PStr("SUCCESS")]]

\* formatter_node with a last branch that always writes its own message
FormatterResult_OverwritesMessage(st) ==
    LET status == st.status
    IN IF status = PStr("TOOL_SUCCESS") THEN
           IF st.tool_args.t # "dict"
           THEN [raised |-> TRUE, st |-> st]
           ELSE [raised |-> FALSE,
                 st |-> [st EXCEPT
                     !.final_response = SuccessMessage(st.tool_name, st.tool_args),
                     !.status = PStr("SUCCESS")]]
       ELSE IF status \in {PStr("NO_TOOL"), PStr("LLM_ERROR")} THEN
           [raised |-> FALSE, st |-> [st EXCEPT !.final_response = NoToolMessage]]
       ELSE IF status = PStr("TOOL_ERROR") THEN
           [raised |-> FALSE, st |-> st]
       ELSE [raised |-> FALSE,
             st |-> [st EXCEPT !.final_response = CouldNotMessage]]

\* formatter_node without the assignment of line 259
FormatterResult_KeepsToolSuccess(st) ==
    LET status == st.status
    IN IF status = PStr("TOOL_SUCCESS") THEN
           IF st.tool_args.t # "dict"
           THEN [raised |-> TRUE, st |-> st]
           ELSE [raised |-> FALSE,
                 st |-> [st EXCEPT
                     !.final_response = SuccessMessage(st.tool_name, st.tool_args),
                     !.status = @]]
       ELSE IF status \in {PStr("NO_TOOL"), PStr("LLM_ERROR")} THEN
           [raised |-> FALSE, st |-> [st EXCEPT !.final_response = NoToolMessage]]
       ELSE IF status = PStr("TOOL_ERROR") THEN
           [raised |-> FALSE, st |-> st]
       ELSE [raised |-> FALSE,
             st |-> [st EXCEPT !.final_response = Or(@, CouldNotMessage)]]

\* formatter_node: [raised, st]
FormatterResult(st) ==
    LET status == st.status
    IN IF status = PStr("TOOL_SUCCESS") THEN
           IF st.tool_args.t # "dict"
           THEN [raised |-> TRUE, st |-> st]
           ELSE [raised |-> FALSE,
                 st |-> [st EXCEPT
                     !.final_response = SuccessMessage(st.tool_name, st.tool_args),
                     !.status = PStr("SUCCESS")]]
       ELSE IF status \in {PStr("NO_TOOL"), PStr("LLM_ERROR")} THEN
           [raised |-> FALSE, st |-> [st EXCEPT !.final_response = NoToolMessage]]
       ELSE IF status = PStr("TOOL_ERROR") THEN
           [raised |-> FALSE, st |-> st]
       ELSE [raised |-> FALSE,
             st |-> [st EXCEPT !.final_response = Or(@, CouldNotMessage)]]

formatter_node(t) ==
    /\ pc[t] = "formatter"
    /\ LET r == FormatterResult(state[t])
       IN /\ state' = [state EXCEPT ![t] = r.st]
          /\ pc' = [pc EXCEPT ![t] = IF r.raised THEN "raised" ELSE "return"]
    /\ calls' = [calls EXCEPT ![t].formatter = @ + 1]
    /\ UNCHANGED <<request, agent, result, passed>>

\* run_orchestrator_turn, lines 294-303: the dict handed to the caller
TurnResult(final) ==
    [status |-> final.status,
     final_response |-> final.final_response,
     tool_name |-> final.tool_name,
     tool_args |-> final.tool_args,
     raw_state |-> final,
     llm_raw |-> final.llm_raw,
     fallback_used |-> IF final.fallback_used = None
                       THEN PBool(FALSE) ELSE final.fallback_used,
     error |-> final.error]

Return(t) ==
    /\ pc[t] = "return"
    /\ result' = [result EXCEPT ![t] = TurnResult(state[t])]
    /\ pc' = [pc EXCEPT ![t] = "done"]
    /\ UNCHANGED <<request, agent, state, calls, passed>>

(***************************************************************************)
(* The inputs of a turn                                                    *)
(***************************************************************************)
\* user messages: up to MaxWords words of the vocabulary
Messages == {PMsg(w) : w \in UNION {[1..n -> Vocabulary] : n \in 0..MaxWords}}

Restrict(f, keys) == [k \in keys |-> f[k]]

FlashcardArgs ==
    [topic |-> PStr("DNA"), count |-> PInt(3),
     difficulty |-> PStr("easy"), subject |-> PStr("Biology")]
NoteArgs ==
    [topic |-> PStr("DNA"), note_taking_style |-> PStr("outline"),
     subject |-> PStr("Biology")]
ConceptArgs ==
    [concept_to_explain |-> PStr("DNA"), desired_depth |-> PStr("basic"),
     current_topic |-> PStr("Genetics")]

\* argument values a model may send: right ones, and ones that are out of
\* range, of another type, misspelt, incomplete, or with a field too many
ModelArgs ==
    {PDict(d) : d \in
        {FlashcardArgs,
         [FlashcardArgs EXCEPT !.count = PInt(CountMin - 1)],
         [FlashcardArgs EXCEPT !.count = PInt(CountMax + 1)],
         [FlashcardArgs EXCEPT !.count = PStr("3")],
         [FlashcardArgs EXCEPT !.count = PStr("21")],
         [FlashcardArgs EXCEPT !.difficulty = PStr("Easy")],
         Restrict(FlashcardArgs, {"topic", "count", "difficulty"}),
         FlashcardArgs @@ ("language" :> PStr("en")),
         NoteArgs,
         [NoteArgs EXCEPT !.note_taking_style = PStr("Outline")],
         ConceptArgs,
         EmptyMap}}
    \cup {PStr("DNA")}

\* tool names a model may send: registered, unregistered, empty, no string
ModelNames ==
    {PStr("note_maker"), PStr("flashcard_generator"), PStr("concept_explainer"),
     PStr("quiz_maker"), PStr(""), PList(<<PStr("note_maker")>>)}

\* the key pairs a model answers with
KeyStyles ==
    {[name |-> "tool_name", args |-> "tool_args"],
     [name |-> "name", args |-> "args"],
     [name |-> "tool", args |-> "tool_input"],
     [name |-> "name", args |-> "parameters"]}

\* JSON objects: nothing, a tool name, or a tool name with arguments
Docs ==
    {PDict(EmptyMap)}
    \cup {PDict(ks.name :> n) : ks \in KeyStyles, n \in ModelNames}
    \cup {PDict((ks.name :> n) @@ (ks.args :> a)) :
             ks \in KeyStyles, n \in ModelNames, a \in ModelArgs}

\* what the agent's "output" can be: a mapping, JSON text plain or fenced,
\* other text, nothing
Outputs ==
    Docs
    \cup {PText(<<Json(d)>>) : d \in Docs}
    \cup {PText(<<Fence, Lang("json"), Space, Json(d), Space, Fence>>) : d \in Docs}
    \cup {PText(<<Prose>>), PText(<<>>), PText(<<Json(PList(<<>>))>>),
          PText(<<Json(PInt(3))>>), None}

\* _agent_executor.invoke raises, or returns a result with an output
AgentOutcomes ==
    {[kind |-> "raise", error |-> PStr(e)] : e \in {"timeout", ""}}
    \cup {[kind |-> "return", output |-> o] : o \in Outputs}

(***************************************************************************)
(* Specification: one turn on any message and any agent outcome            *)
(***************************************************************************)
IdleAgent == [kind |-> "raise", error |-> PStr("")]

\* the turns in `active` are about to be called with the given inputs
Begin(active, msg, outcome) ==
    /\ pc = [t \in Turns |-> IF t \in active THEN "call" ELSE "idle"]
    /\ request = [t \in Turns |-> IF t \in active THEN msg[t] ELSE PMsg(<<>>)]
    /\ agent = [t \in Turns |-> IF t \in active THEN outcome[t] ELSE IdleAgent]
    /\ state = [t \in Turns |-> EmptyState]
    /\ result = [t \in Turns |-> None]
    /\ calls = [t \in Turns |-> NoCalls]
    /\ passed = [t \in Turns |-> None]

Init ==
    \E m \in Messages, a \in AgentOutcomes :
        Begin({"t1"}, [t \in Turns |-> m], [t \in Turns |-> a])

Next ==
    \E t \in Turns :
        \/ Invoke(t)
        \/ planner_node(t)
        \/ executor_node(t)
        \/ formatter_node(t)
        \/ Return(t)

Spec == Init /\ [][Next]_vars

(***************************************************************************)
(* Specification of the decoding: one message, and every JSON object that  *)
(* carries any of the name keys and any of the argument keys, as a mapping  *)
(* or as text                                                              *)
(***************************************************************************)
NameKeys == {"tool_name", "tool", "name"}
ArgKeys == {"args", "tool_args", "tool_input", "parameters"}

\* the mappings from some of the keys to the values
PartialMaps(keys, values) == UNION {[ks -> values] : ks \in SUBSET keys}

DecodeNames == {PStr(""), PStr("note_maker")}
DecodeArgs == {PDict(EmptyMap), PDict(NoteArgs), PDict(FlashcardArgs)}

DecodeDocs ==
    {PDict(n @@ a) : n \in PartialMaps(NameKeys, DecodeNames),
                     a \in PartialMaps(ArgKeys, DecodeArgs)}

DecodeOutputs ==
    DecodeDocs
    \cup {PText(<<Json(d)>>) : d \in DecodeDocs}
    \cup {PText(<<Fence, Lang("JSON"), Space, Json(d), Space, Fence>>) : d \in DecodeDocs}
    \cup {PText(<<Fence, Space, Json(d), Space, Fence>>) : d \in DecodeDocs}

InitDecode ==
    \E a \in {[kind |-> "return", output |-> o] : o \in DecodeOutputs} :
        Begin({"t1"}, [t \in Turns |-> PMsg(<<"quiz">>)], [t \in Turns |-> a])

SpecDecode == InitDecode /\ [][Next]_vars

(***************************************************************************)
(* Specifications of the heuristic path: the agent fails, and the message  *)
(* is any sequence of up to MaxHeuristicWords words, with keywords of the  *)
(* three rules and numbers (SpecHeuristic), or with the explainer keyword  *)
(* and the depth words (SpecDepth)                                         *)
(***************************************************************************)
MaxHeuristicWords == 3

HeuristicVocabulary ==
    {"Notes", "quiz", "QUIZ", "explain", "0", "12", "99", "123", "a1"}

DepthVocabulary ==
    {"explain", "simple", "basic", "advanced", "detailed", "hi"}

\* the messages of up to MaxHeuristicWords words of a vocabulary
MessagesOver(vocabulary) ==
    {PMsg(w) : w \in UNION {[1..n -> vocabulary] : n \in 0..MaxHeuristicWords}}

HeuristicMessages == MessagesOver(HeuristicVocabulary)
DepthMessages == MessagesOver(DepthVocabulary)

\* the agent is disabled (the call raises) or answers with prose
FailingOutcomes ==
    {[kind |-> "raise", error |-> PStr("timeout")],
     [kind |-> "return", output |-> PText(<<Prose>>)]}

InitHeuristic ==
    \E m \in HeuristicMessages, a \in FailingOutcomes :
        Begin({"t1"}, [t \in Turns |-> m], [t \in Turns |-> a])

SpecHeuristic == InitHeuristic /\ [][Next]_vars

InitDepth ==
    \E m \in DepthMessages, a \in FailingOutcomes :
        Begin({"t1"}, [t \in Turns |-> m], [t \in Turns |-> a])

SpecDepth == InitDepth /\ [][Next]_vars

(***************************************************************************)
(* Specification of two concurrent turns: both are called, each with its   *)
(* own message and agent outcome, and their steps interleave in any order  *)
(***************************************************************************)
ConcurrentMessages ==
    {PMsg(<<"quiz", "99">>), PMsg(<<"Notes">>), PMsg(<<"hi">>)}

\* the agent raises, names a tool with valid arguments, with a count out of
\* range, a tool that is not registered, or a list in place of the name
ConcurrentOutcomes ==
    {[kind |-> "raise", error |-> PStr("timeout")],
     [kind |-> "return",
      output |-> PDict([name |-> PStr("note_maker"), args |-> PDict(NoteArgs)])],
     [kind |-> "return",
      output |-> PText(<<Fence, Lang("json"), Space,
                         Json(PDict([tool_name |-> PStr("flashcard_generator"),
                                     tool_args |-> PDict([FlashcardArgs EXCEPT
                                         !.count = PInt(CountMax + 1)])])),
                         Space, Fence>>)],
     [kind |-> "return", output |-> PDict([name |-> PStr("quiz_maker")])],
     [kind |-> "return",
      output |-> PDict([tool_name |-> PList(<<PStr("note_maker")>>)])]}

InitConcurrent ==
    \E m \in [Turns -> ConcurrentMessages], a \in [Turns -> ConcurrentOutcomes] :
        Begin(Turns, m, a)

SpecConcurrent == InitConcurrent /\ [][Next]_vars

(***************************************************************************)
(* Properties                                                              *)
(***************************************************************************)
S(x) == PStr(x)

StatusValues ==
    {S("FOUND_TOOL"), S("NO_TOOL"), S("TOOL_SUCCESS"), S("UNKNOWN_TOOL"),
     S("TOOL_ERROR"), S("SUCCESS")}

\* the turn has been called / has come back from planner_node / executor_node
Called(t) == pc[t] # "idle"
Planned(t) == calls[t].planner > 0
Executed(t) == calls[t].executor > 0
Returned(t) == pc[t] = "done"

\* the guard of one of the steps of turn t holds: the turn is not over
CanStep(t) == pc[t] \in {"call", "planner", "executor", "formatter", "return"}

\* the model-backed planning step of turn t fails: the call raises, or no
\* non-empty tool name is decoded from what it returns
PlanningFails(t) ==
    \/ agent[t].kind = "raise"
    \/ ~Decode(PDict([input |-> request[t], output |-> agent[t].output])).found

\* the text of the exception the failed planning step is caught with
PlanningError(t) ==
    IF agent[t].kind = "raise" THEN agent[t].error ELSE ValueErrorText

\* C1: no exception escapes run_orchestrator_turn - whatever the message and
\* the agent's outcome, no turn is ever left by an exception
C1_NoExceptionEscapes == \A t \in Turns : pc[t] # "raised"

\* C2: every turn terminates with a status of the enumeration - a called turn
\* has a next step to take until it has returned, and the status it then
\* returned is one of the six values
C2_TerminatesWithStatus ==
    \A t \in Turns :
        Called(t) =>
            \/ CanStep(t)
            \/ Returned(t) /\ result[t].status \in StatusValues

\* C3: when the model-backed planning step fails, the turn returns with
\* fallback_used true, the error text of the failure in error, and tool_name
\* and tool_args exactly those of rule_based_planner on the same message
C3_FallbackEqualsHeuristic ==
    \A t \in Turns :
        (Called(t) /\ PlanningFails(t)) =>
            /\ pc[t] # "raised"
            /\ Planned(t) =>
                 /\ state[t].fallback_used = PBool(TRUE)
                 /\ state[t].tool_name = rule_based_planner(request[t]).tool_name
                 /\ state[t].tool_args = rule_based_planner(request[t]).tool_args
            /\ Returned(t) =>
                 /\ result[t].fallback_used = PBool(TRUE)
                 /\ result[t].error = PlanningError(t)
                 /\ result[t].tool_name = rule_based_planner(request[t]).tool_name
                 /\ result[t].tool_args = rule_based_planner(request[t]).tool_args

\* C3 witness: a turn whose agent returned a tool name that is empty, with
\* arguments, has returned the heuristic planner's flashcard request
C3_Witness ==
    \E t \in Turns :
        /\ Returned(t)
        /\ agent[t].kind = "return"
        /\ agent[t].output = PDict([name |-> S(""), args |-> PDict(NoteArgs)])
        /\ result[t].fallback_used = PBool(TRUE)
        /\ result[t].tool_name = S("flashcard_generator")

\* the arguments satisfy the schema of the tool: required fields present,
\* enum values allowed, count within 1..20
SatisfiesSchema(name, args) ==
    /\ args.t = "dict"
    /\ \A f \in TOOL_MAP[name] :
          /\ f.default = NoDefault => f.name \in DOMAIN args.d
          /\ (f.type = "enum" /\ f.name \in DOMAIN args.d) =>
                 /\ args.d[f.name].t = "str"
                 /\ args.d[f.name].s \in f.allowed
    /\ name = "flashcard_generator" =>
          /\ args.d["count"].t = "int"
          /\ args.d["count"].i \in 1..20

\* C4: a turn on the heuristic path (fallback_used true) carries a registered
\* tool with arguments that satisfy its schema, or no tool; it is never
\* rejected, and it returns SUCCESS or NO_TOOL
C4_FallbackNeverRejected ==
    \A t \in Turns :
        (Planned(t) /\ state[t].fallback_used = PBool(TRUE)) =>
            /\ pc[t] # "raised"
            /\ state[t].status \notin {S("TOOL_ERROR"), S("UNKNOWN_TOOL")}
            /\ \/ state[t].tool_name = None /\ state[t].tool_args = None
               \/ /\ Registered(state[t].tool_name)
                  /\ SatisfiesSchema(state[t].tool_name.s, state[t].tool_args)
            /\ Returned(t) => result[t].status \in {S("SUCCESS"), S("NO_TOOL")}

\* C4 witness: a message asking for 99 cards has returned SUCCESS on the
\* heuristic path with the count clamped to 20
C4_Witness ==
    \E t \in Turns :
        /\ Returned(t)
        /\ request[t] = PMsg(<<"quiz", "99">>)
        /\ result[t].fallback_used = PBool(TRUE)
        /\ result[t].status = S("SUCCESS")
        /\ result[t].tool_args.d["count"] = PInt(20)

\* C5: for a turn that ends with a tool executed, the tool_args echoed in
\* the result equal the validated arguments the tool function computed on
C5_EchoEqualsValidated ==
    \A t \in Turns :
        (Returned(t) /\ result[t].status = S("SUCCESS")) =>
            result[t].tool_args = passed[t]

\* C6: in every turn each of the three stages runs exactly once, in the order
\* plan, execute, format, and no planner runs again - no stage has run twice
\* or before its predecessor, and a turn that is over has run all three
C6_StagesOnceInOrder ==
    \A t \in Turns :
        /\ calls[t].planner <= 1 /\ calls[t].executor <= 1 /\ calls[t].formatter <= 1
        /\ calls[t].agent <= 1 /\ calls[t].rule_based <= 1
        /\ calls[t].executor > 0 => calls[t].planner = 1
        /\ calls[t].formatter > 0 => calls[t].executor = 1
        /\ (Called(t) /\ ~CanStep(t)) =>
               /\ calls[t].planner = 1
               /\ calls[t].executor = 1
               /\ calls[t].formatter = 1

\* the plan stage of turn t has named a tool that the registry does not hold
NamesUnknownTool(t) ==
    /\ Planned(t)
    /\ state[t].tool_name.t = "str"
    /\ state[t].tool_name.s \notin
           {"", "note_maker", "flashcard_generator", "concept_explainer"}

\* C7: a turn whose plan names a tool absent from the registry ends with
\* UNKNOWN_TOOL and the error string naming the tool; no tool function runs,
\* tool_output stays unset and the heuristic planner is not consulted
C7_UnknownToolIsFinal ==
    \A t \in Turns :
        NamesUnknownTool(t) =>
            /\ pc[t] # "raised"
            /\ calls[t].tool = 0
            /\ calls[t].rule_based = 0
            /\ calls[t].planner = 1
            /\ state[t].tool_output = None
            /\ Executed(t) =>
                 /\ state[t].status = S("UNKNOWN_TOOL")
                 /\ state[t].final_response =
                        Fmt("Unknown tool: {name}", <<state[t].tool_name>>)
            /\ Returned(t) =>
                 /\ result[t].status = S("UNKNOWN_TOOL")
                 /\ result[t].final_response =
                        Fmt("Unknown tool: {name}", <<result[t].tool_name>>)

\* C7 witness: a turn has returned UNKNOWN_TOOL for the tool quiz_maker
C7_Witness ==
    \E t \in Turns :
        /\ Returned(t)
        /\ result[t].tool_name = S("quiz_maker")
        /\ result[t].status = S("UNKNOWN_TOOL")

\* the arguments carry a count that is an integer outside 1..20
CountOutOfRange(args) ==
    /\ args.t = "dict"
    /\ "count" \in DOMAIN args.d
    /\ args.d["count"].t = "int"
    /\ args.d["count"].i \notin 1..20

\* the execute stage of turn t rejected the request: TOOL_ERROR, the error
\* recorded and shown in final_response, no tool function run, no tool_output
Rejected(t) ==
    /\ pc[t] # "raised"
    /\ calls[t].tool = 0
    /\ state[t].tool_output = None
    /\ Executed(t) =>
         /\ state[t].status = S("TOOL_ERROR")
         /\ state[t].error # None
         /\ state[t].final_response =
                Fmt("Tool execution failed: {e}", <<state[t].error>>)
    /\ Returned(t) =>
         /\ result[t].status = S("TOOL_ERROR")
         /\ result[t].error = state[t].error
         /\ result[t].final_response = state[t].final_response

\* C8: a flashcard_generator request whose count is outside 1..20 is rejected
\* by the validator whenever it reaches the execute stage
C8_CountOutOfRangeRejected ==
    \A t \in Turns :
        (/\ Planned(t)
         /\ state[t].tool_name = S("flashcard_generator")
         /\ CountOutOfRange(state[t].tool_args)) => Rejected(t)

\* C8 witness: a model-planned request for 21 cards has returned TOOL_ERROR
C8_Witness ==
    \E t \in Turns :
        /\ Returned(t)
        /\ result[t].fallback_used = PBool(FALSE)
        /\ result[t].tool_name = S("flashcard_generator")
        /\ result[t].tool_args.t = "dict"
        /\ "count" \in DOMAIN result[t].tool_args.d
        /\ result[t].tool_args.d["count"] = PInt(21)
        /\ result[t].status = S("TOOL_ERROR")

\* the arguments lack a required field of the tool
LacksRequired(name, args) ==
    \E f \in TOOL_MAP[name] : f.default = NoDefault /\ f.name \notin DOMAIN args.d

\* the arguments carry an enum field whose value is not exactly an allowed one
EnumMismatch(name, args) ==
    \E f \in TOOL_MAP[name] :
        /\ f.type = "enum"
        /\ f.name \in DOMAIN args.d
        /\ ~(args.d[f.name].t = "str" /\ args.d[f.name].s \in f.allowed)

\* C9: a request for a registered tool whose arguments lack a required field
\* (the empty mapping included) or carry an enum value that is not exactly an
\* allowed one is rejected; it never ends with SUCCESS
C9_InvalidArgsRejected ==
    \A t \in Turns :
        (/\ Planned(t)
         /\ Registered(state[t].tool_name)
         /\ state[t].tool_args.t = "dict"
         /\ \/ LacksRequired(state[t].tool_name.s, state[t].tool_args)
            \/ EnumMismatch(state[t].tool_name.s, state[t].tool_args))
        => /\ Rejected(t)
           /\ state[t].status # S("SUCCESS")

\* C9 witness: a request with difficulty "Easy" has returned TOOL_ERROR
C9_Witness ==
    \E t \in Turns :
        /\ Returned(t)
        /\ result[t].tool_name = S("flashcard_generator")
        /\ result[t].tool_args = PDict([FlashcardArgs EXCEPT !.difficulty = S("Easy")])
        /\ result[t].status = S("TOOL_ERROR")

\* the JSON object the agent's output of turn t is, or is the text of
DecodedDoc(t) ==
    LET output == agent[t].output
    IN IF output.t = "dict" THEN output
       ELSE output.toks[CHOOSE i \in DOMAIN output.toks : output.toks[i].k = "json"].v

\* the plan stage of turn t took the tool from the agent's output
ModelPlanned(t) == Planned(t) /\ state[t].fallback_used = PBool(FALSE)

RECURSIVE FirstPresent(_, _)
\* the value of the first of the keys the object has, {} when it has none
FirstPresent(doc, keys) ==
    IF keys = <<>> THEN PDict(EmptyMap)
    ELSE IF Head(keys) \in DOMAIN doc.d THEN doc.d[Head(keys)]
    ELSE FirstPresent(doc, Tail(keys))

RECURSIVE FirstNonEmpty(_, _)
\* the first non-empty value among those of the keys, {} when there is none
FirstNonEmpty(doc, keys) ==
    IF keys = <<>> THEN PDict(EmptyMap)
    ELSE IF Head(keys) \in DOMAIN doc.d /\ Truthy(doc.d[Head(keys)])
         THEN doc.d[Head(keys)]
    ELSE FirstNonEmpty(doc, Tail(keys))

\* C10 as stated: the arguments are those of the first key present, in the
\* order args, tool_args, tool_input, parameters, for a mapping and for text
C10_FirstPresentKey ==
    \A t \in Turns :
        ModelPlanned(t) =>
            state[t].tool_args =
                FirstPresent(DecodedDoc(t),
                             <<"args", "tool_args", "tool_input", "parameters">>)

\* C10 amended: the arguments are the first non-empty value, looked up in the
\* order args, tool_args, tool_input, parameters for a mapping output and
\* tool_args, args, tool_input, parameters for JSON text, {} when none is
C10_FirstNonEmptyKey ==
    \A t \in Turns :
        ModelPlanned(t) =>
            state[t].tool_args =
                FirstNonEmpty(DecodedDoc(t),
                    IF agent[t].output.t = "dict"
                    THEN <<"args", "tool_args", "tool_input", "parameters">>
                    ELSE <<"tool_args", "args", "tool_input", "parameters">>)

\* C10 witness: a text output with an empty tool_input, and with args and
\* tool_args that differ, was decoded to the value of tool_args
C10_Witness ==
    \E t \in Turns :
        /\ ModelPlanned(t)
        /\ agent[t].output.t = "text"
        /\ DOMAIN DecodedDoc(t).d = {"tool_name", "args", "tool_args", "tool_input"}
        /\ DecodedDoc(t).d["tool_input"] = PDict(EmptyMap)
        /\ DecodedDoc(t).d["args"] = PDict(FlashcardArgs)
        /\ DecodedDoc(t).d["tool_args"] = PDict(NoteArgs)
        /\ state[t].tool_args = PDict(NoteArgs)

\* the keys the plan stage reads the tool name from, in the order it tries
\* them: line 179 for a mapping output, line 161 for JSON text
RecognisedNameKeys(output) ==
    IF output.t = "dict" THEN <<"name", "tool_name">>
    ELSE <<"tool_name", "tool", "name">>

\* the keys the plan stage reads the arguments from, in the order it tries them
RecognisedArgKeys(output) ==
    IF output.t = "dict"
    THEN <<"args", "tool_args", "tool_input", "parameters">>
    ELSE <<"tool_args", "args", "tool_input", "parameters">>

\* the agent's output of turn t is a mapping, or text that is one JSON object
\* plain or between code fences
IsToolDocument(t) ==
    /\ agent[t].kind = "return"
    /\ LET output == agent[t].output
       IN \/ output.t = "dict" /\ DOMAIN output.d # {}
          \/ /\ output.t = "text"
             /\ \/ \E d \in {output.toks[i].v : i \in {j \in DOMAIN output.toks :
                                     output.toks[j].k = "json"}} :
                       /\ d.t = "dict"
                       /\ \/ output.toks = <<Json(d)>>
                          \/ output.toks = <<Fence, Space, Json(d), Space, Fence>>
                          \/ \E tag \in JsonTagSpellings :
                                output.toks =
                                    <<Fence, Lang(tag), Space, Json(d), Space, Fence>>

\* the output of turn t carries a non-empty tool name under a key the plan
\* stage reads for its shape
CarriesToolName(t) ==
    /\ IsToolDocument(t)
    /\ \E i \in DOMAIN RecognisedNameKeys(agent[t].output) :
          LET k == RecognisedNameKeys(agent[t].output)[i]
          IN k \in DOMAIN DecodedDoc(t).d /\ Truthy(DecodedDoc(t).d[k])

\* C11: when the agent's output (a mapping, JSON text, or JSON text between
\* code fences with or without a json tag) carries a non-empty tool name, the
\* plan stage takes that name and its arguments with status FOUND_TOOL,
\* fallback_used false and no error, without calling the heuristic planner;
\* and the turn returns SUCCESS when the tool is registered and the arguments
\* satisfy its schema
C11_ModelPlanTaken ==
    \A t \in Turns :
        (Called(t) /\ CarriesToolName(t)) =>
            /\ calls[t].rule_based = 0
            /\ Planned(t) =>
                 /\ state[t].tool_name =
                        FirstNonEmpty(DecodedDoc(t), RecognisedNameKeys(agent[t].output))
                 /\ state[t].tool_args =
                        FirstNonEmpty(DecodedDoc(t), RecognisedArgKeys(agent[t].output))
                 /\ state[t].fallback_used = PBool(FALSE)
            /\ pc[t] = "executor" =>
                 /\ state[t].status = S("FOUND_TOOL")
                 /\ state[t].error = None
            /\ (/\ Returned(t)
                /\ Registered(result[t].tool_name)
                /\ SatisfiesSchema(result[t].tool_name.s, result[t].tool_args)) =>
                 /\ result[t].status = S("SUCCESS")
                 /\ result[t].fallback_used = PBool(FALSE)
                 /\ result[t].error = None

\* C11 witness: JSON text between untagged code fences that names note_maker
\* under the key tool, with valid arguments, has returned SUCCESS without the
\* heuristic planner
C11_Witness ==
    \E t \in Turns :
        /\ Returned(t)
        /\ agent[t].kind = "return"
        /\ agent[t].output =
               PText(<<Fence, Space,
                       Json(PDict([tool |-> S("note_maker"),
                                   parameters |-> PDict(NoteArgs)])),
                       Space, Fence>>)
        /\ result[t].status = S("SUCCESS")
        /\ result[t].tool_name = S("note_maker")
        /\ result[t].fallback_used = PBool(FALSE)
        /\ calls[t].rule_based = 0

\* the plan stage of turn t has just returned the heuristic planner's answer
HeuristicPlanned(t) ==
    pc[t] = "executor" /\ state[t].fallback_used = PBool(TRUE)

\* the three rules in the order of their priority
KeywordRules ==
    <<[keywords |-> NoteKeywords, tool |-> S("note_maker")],
      [keywords |-> FlashcardKeywords, tool |-> S("flashcard_generator")],
      [keywords |-> ExplainKeywords, tool |-> S("concept_explainer")]>>

\* the rules of which a keyword occurs in the lower-cased message
MatchingRules(msg) ==
    {i \in DOMAIN KeywordRules :
        \E k \in KeywordRules[i].keywords : Contains(Lower(Text(msg.w)), k)}

\* the tool of the first matching rule, None when no rule matches
FirstRuleTool(msg) ==
    IF MatchingRules(msg) = {} THEN None
    ELSE KeywordRules[CHOOSE i \in MatchingRules(msg) :
                          \A j \in MatchingRules(msg) : i <= j].tool

\* the messages that differ from msg in the letter case of one word
CaseVariants(msg) ==
    UNION {{PMsg([msg.w EXCEPT ![i] = w]) :
               w \in {v \in HeuristicVocabulary :
                         Lower(Chars(v)) = Lower(Chars(msg.w[i]))}} :
           i \in DOMAIN msg.w}

\* C12: the heuristic planner chooses the tool of the first rule (notes,
\* flashcards, explainer) with a keyword in the lower-cased message, the same
\* tool for messages that differ only in letter case, and tool_name None and
\* tool_args None when no rule matches
C12_FirstRuleWinsIgnoringCase ==
    \A t \in Turns :
        HeuristicPlanned(t) =>
            /\ state[t].tool_name = FirstRuleTool(request[t])
            /\ \A m \in CaseVariants(request[t]) :
                   rule_based_planner(m).tool_name = state[t].tool_name
            /\ MatchingRules(request[t]) = {} =>
                   state[t].tool_name = None /\ state[t].tool_args = None
            /\ MatchingRules(request[t]) # {} => state[t].tool_args # None

\* C12 witness: the message "QUIZ Notes", with keywords of two rules in
\* capitals, was planned as note_maker
C12_Witness ==
    \E t \in Turns :
        /\ HeuristicPlanned(t)
        /\ request[t] = PMsg(<<"QUIZ", "Notes">>)
        /\ state[t].tool_name = S("note_maker")
        /\ PMsg(<<"quiz", "Notes">>) \in CaseVariants(request[t])

\* the word is an integer of one or two digits
IsShortNumber(w) ==
    /\ Len(Chars(w)) \in 1..2
    /\ \A j \in DOMAIN Chars(w) : IsDigit(Chars(w)[j])

\* the value of a word that is an integer of one or two digits
ShortNumberValue(w) ==
    IF Len(Chars(w)) = 1 THEN DigitValue(Chars(w)[1])
    ELSE 10 * DigitValue(Chars(w)[1]) + DigitValue(Chars(w)[2])

\* the first integer of one or two digits in the message, clamped to 1..20;
\* 5 when the message has none
ExpectedCount(msg) ==
    LET numbers == {i \in DOMAIN msg.w : IsShortNumber(msg.w[i])}
    IN IF numbers = {} THEN 5
       ELSE LET first == ShortNumberValue(
                    msg.w[CHOOSE i \in numbers : \A j \in numbers : i <= j])
            IN IF first < 1 THEN 1 ELSE IF first > 20 THEN 20 ELSE first

\* C13: when the heuristic planner selects flashcard_generator, count is the
\* first integer of one or two digits in the message clamped to 1..20, and 5
\* when the message has no such integer; count is always within 1..20
C13_CountFirstIntegerClamped ==
    \A t \in Turns :
        (HeuristicPlanned(t) /\ state[t].tool_name = S("flashcard_generator")) =>
            /\ state[t].tool_args.d["count"] = PInt(ExpectedCount(request[t]))
            /\ state[t].tool_args.d["count"].i \in 1..20

\* C13 witness: "quiz 99 12" was planned with count 20, the first of its two
\* integers clamped
C13_Witness ==
    \E t \in Turns :
        /\ HeuristicPlanned(t)
        /\ request[t] = PMsg(<<"quiz", "99", "12">>)
        /\ state[t].tool_name = S("flashcard_generator")
        /\ state[t].tool_args.d["count"] = PInt(20)

\* the lower-cased message of turn t contains the word
Mentions(t, word) == Contains(Lower(Text(request[t].w)), Chars(word))

\* the depth the message of turn t asks for
ExpectedDepth(t) ==
    IF Mentions(t, "advanced") \/ Mentions(t, "detailed") THEN S("advanced")
    ELSE IF Mentions(t, "simple") \/ Mentions(t, "basic") THEN S("basic")
    ELSE S("intermediate")

\* C14: when the heuristic planner selects concept_explainer, desired_depth is
\* "advanced" if the message contains "advanced" or "detailed", otherwise
\* "basic" if it contains "simple" or "basic", otherwise "intermediate", and
\* current_topic is the last_topic of the context ("General" without one)
C14_DepthAdvancedOverBasic ==
    \A t \in Turns :
        (HeuristicPlanned(t) /\ state[t].tool_name = S("concept_explainer")) =>
            /\ state[t].tool_args.d["desired_depth"] = ExpectedDepth(t)
            /\ state[t].tool_args.d["current_topic"] =
                   IF "last_topic" \in DOMAIN MOCK_STUDENT_CONTEXT
                   THEN MOCK_STUDENT_CONTEXT["last_topic"] ELSE S("General")

\* C14 witness: a message with both "simple" and "detailed" was planned with
\* depth "advanced" and the topic Photosynthesis
C14_Witness ==
    \E t \in Turns :
        /\ HeuristicPlanned(t)
        /\ request[t] = PMsg(<<"explain", "detailed", "simple">>)
        /\ state[t].tool_name = S("concept_explainer")
        /\ state[t].tool_args.d["desired_depth"] = S("advanced")
        /\ state[t].tool_args.d["current_topic"] = S("Photosynthesis")

\* C15: for a message without a keyword of any rule, when the model-backed
\* planner fails, the turn ends with status NO_TOOL, the fixed "Unable to
\* determine a suitable tool" message, tool_name and tool_args None, and
\* neither a registry lookup nor a tool computation
C15_NoKeywordNoTool ==
    \A t \in Turns :
        (Called(t) /\ PlanningFails(t) /\ MatchingRules(request[t]) = {}) =>
            /\ pc[t] # "raised"
            /\ calls[t].lookup = 0
            /\ calls[t].tool = 0
            /\ Planned(t) =>
                 /\ state[t].status = S("NO_TOOL")
                 /\ state[t].tool_name = None
                 /\ state[t].tool_args = None
                 /\ state[t].tool_output = None
            /\ Returned(t) =>
                 /\ calls[t].executor = 1
                 /\ result[t].status = S("NO_TOOL")
                 /\ result[t].final_response = NoToolMessage
                 /\ result[t].tool_name = None
                 /\ result[t].tool_args = None

\* C15 witness: the message "hi 99", with the agent raising, has returned
\* NO_TOOL with the fixed message and without a registry lookup
C15_Witness ==
    \E t \in Turns :
        /\ Returned(t)
        /\ request[t] = PMsg(<<"hi", "99">>)
        /\ agent[t].kind = "raise"
        /\ result[t].status = S("NO_TOOL")
        /\ result[t].final_response = NoToolMessage
        /\ calls[t].lookup = 0

\* C16: the returned status tells which fields are meaningful - at return
\* tool_output is recorded if and only if the status is SUCCESS, a status
\* becomes SUCCESS only in the format stage from a TOOL_SUCCESS, and a status
\* becomes TOOL_SUCCESS only in the execute stage of the same turn, together
\* with the output of the tool it ran
C16_OutputIffSuccess ==
    /\ [](\A t \in Turns :
             Returned(t) =>
                 /\ result[t].status = S("SUCCESS")
                        <=> result[t].raw_state.tool_output # None
                 /\ result[t].status \in
                        {S("NO_TOOL"), S("UNKNOWN_TOOL"), S("TOOL_ERROR")}
                        => result[t].raw_state.tool_output = None)
    /\ [][\A t \in Turns :
             /\ (state'[t].status = S("SUCCESS") /\ state[t].status # S("SUCCESS")) =>
                    /\ pc[t] = "formatter"
                    /\ state[t].status = S("TOOL_SUCCESS")
                    /\ calls[t].tool = 1
             /\ (state'[t].status = S("TOOL_SUCCESS")
                    /\ state[t].status # S("TOOL_SUCCESS")) =>
                    /\ pc[t] = "executor"
                    /\ calls'[t].tool = 1
                    /\ state'[t].tool_output # None]_vars

\* C16 witness: one turn has returned SUCCESS with the output of the
\* flashcard tool in its state
C16_Witness ==
    \E t \in Turns :
        /\ Returned(t)
        /\ result[t].status = S("SUCCESS")
        /\ result[t].tool_name = S("flashcard_generator")
        /\ result[t].raw_state.tool_output = ToolCompute("flashcard_generator", passed[t].d)
        /\ calls[t].tool = 1

\* the turn run alone on a message and an agent outcome: the state after
\* each stage, whether an exception leaves it, and the result it returns
Solo(msg, outcome) ==
    LET called == [EmptyState EXCEPT !.user_message = msg]
        planned == PlannerResult(called, outcome)
        executed == ExecutorResult(planned)
        formatted == FormatterResult(executed.st)
    IN [called |-> called,
        planned |-> planned,
        executed |-> executed.st,
        formatted |-> formatted.st,
        raised |-> executed.raised \/ formatted.raised,
        result |-> TurnResult(formatted.st)]

\* turn t is where, and has what, it would be and have when run alone
AsAlone(t) ==
    LET solo == Solo(request[t], agent[t])
    IN /\ pc[t] = "call" => state[t] = EmptyState /\ result[t] = None
       /\ pc[t] = "planner" => state[t] = solo.called
       /\ pc[t] = "executor" => state[t] = solo.planned
       /\ pc[t] = "formatter" => state[t] = solo.executed /\ ~solo.raised
       /\ pc[t] = "return" => state[t] = solo.formatted
       /\ pc[t] = "raised" => solo.raised /\ result[t] = None
       /\ pc[t] = "done" => ~solo.raised /\ result[t] = solo.result

\* the step leaves everything of the turns other than t as it was
OnlyTouches(t) ==
    \A u \in Turns \ {t} :
        /\ pc'[u] = pc[u]
        /\ state'[u] = state[u]
        /\ result'[u] = result[u]
        /\ calls'[u] = calls[u]
        /\ passed'[u] = passed[u]

\* C17: turns are independent - with the stages of two turns interleaved in
\* any order, each turn is after every stage in the state it has when run
\* alone on the same message and agent outcome and returns the same result,
\* and every step changes the state of one turn only
C17_TurnsIndependent ==
    /\ [](\A t \in Turns : AsAlone(t))
    /\ [][(\E t \in Turns : OnlyTouches(t))
           /\ request' = request /\ agent' = agent]_vars

\* C17 witness: of two turns called together on different messages, the
\* first has returned SUCCESS from the heuristic path while the second,
\* planned by the model, stands between its execute and format stages with
\* UNKNOWN_TOOL
C17_Witness ==
    /\ Returned("t1")
    /\ result["t1"].status = S("SUCCESS")
    /\ result["t1"].fallback_used = PBool(TRUE)
    /\ pc["t2"] = "formatter"
    /\ state["t2"].status = S("UNKNOWN_TOOL")
    /\ state["t2"].fallback_used = PBool(FALSE)
    /\ request["t1"] # request["t2"]

\* the format stage of turn t is entered with an error status of the execute
\* stage
FormatterEntersWithError(t) ==
    /\ pc[t] = "formatter"
    /\ state[t].status \in {S("TOOL_ERROR"), S("UNKNOWN_TOOL")}

\* the error string the execute stage writes for the status of the state
ExecutorErrorString(st) ==
    IF st.status = S("UNKNOWN_TOOL")
    THEN Fmt("Unknown tool: {name}", <<st.tool_name>>)
    ELSE Fmt("Tool execution failed: {e}", <<st.error>>)

\* C18: the format stage entered with status TOOL_ERROR or UNKNOWN_TOOL
\* leaves the state as it is - final_response stays the error string of the
\* execute stage, and status, tool_name, tool_args, error and fallback_used
\* (and every other field) are not modified
C18_FormatterKeepsErrorState ==
    [][\A t \in Turns :
         (FormatterEntersWithError(t) /\ pc'[t] # pc[t]) =>
             /\ pc'[t] = "return"
             /\ state'[t] = state[t]
             /\ state'[t].final_response = ExecutorErrorString(state[t])]_vars

\* C18 witness: the format stage has run on a state with UNKNOWN_TOOL, which
\* still carries the error string of the execute stage
C18_Witness ==
    \E t \in Turns :
        /\ pc[t] = "return"
        /\ calls[t].formatter = 1
        /\ state[t].status = S("UNKNOWN_TOOL")
        /\ state[t].final_response = Fmt("Unknown tool: {name}", <<S("quiz_maker")>>)

\* the four statuses a caller may see
ReturnedStatusValues ==
    {S("SUCCESS"), S("NO_TOOL"), S("UNKNOWN_TOOL"), S("TOOL_ERROR")}

\* the value is a str with at least one character
NonEmptyString(v) == v.t = "fstr" \/ (v.t \in {"str", "msg"} /\ Truthy(v))

\* C19: the intermediate statuses never reach the caller - the status of
\* every returned result is SUCCESS, NO_TOOL, UNKNOWN_TOOL or TOOL_ERROR, never
\* FOUND_TOOL or TOOL_SUCCESS, and its final_response is a non-empty string
C19_ReturnedStatusIsFinal ==
    \A t \in Turns :
        Returned(t) =>
            /\ result[t].status \in ReturnedStatusValues
            /\ result[t].status \notin {S("FOUND_TOOL"), S("TOOL_SUCCESS")}
            /\ NonEmptyString(result[t].final_response)

\* C19 witness: a turn that passed through FOUND_TOOL and TOOL_SUCCESS has
\* returned SUCCESS with the message of the concept explainer
C19_Witness ==
    \E t \in Turns :
        /\ Returned(t)
        /\ calls[t].tool = 1
        /\ result[t].status = S("SUCCESS")
        /\ result[t].final_response =
               Fmt("Explanation for **{concept}** ready!", <<S("DNA")>>)

\* C20 as stated: a returned NO_TOOL comes with fallback_used true and a
\* non-empty error, and never with fallback_used false
C20_NoToolErrorNonEmpty ==
    \A t \in Turns :
        Returned(t) =>
            /\ result[t].status = S("NO_TOOL") =>
                   /\ result[t].fallback_used = PBool(TRUE)
                   /\ result[t].error # None
                   /\ Truthy(result[t].error)
            /\ result[t].fallback_used = PBool(FALSE) =>
                   result[t].status # S("NO_TOOL")

\* C20 amended: a returned NO_TOOL comes with fallback_used true, after a
\* failure of the model-backed path, and with error set to the text of that
\* failure (empty when the exception has no message); it never comes with
\* fallback_used false
C20_NoToolOnlyAfterFallback ==
    \A t \in Turns :
        Returned(t) =>
            /\ result[t].status = S("NO_TOOL") =>
                   /\ result[t].fallback_used = PBool(TRUE)
                   /\ PlanningFails(t)
                   /\ result[t].error # None
                   /\ result[t].error = PlanningError(t)
            /\ result[t].fallback_used = PBool(FALSE) =>
                   result[t].status # S("NO_TOOL")

\* C20 witness: the agent raised an exception without a message on "hi", and
\* the turn has returned NO_TOOL with fallback_used true and the empty text
\* in error
C20_Witness ==
    \E t \in Turns :
        /\ Returned(t)
        /\ request[t] = PMsg(<<"hi">>)
        /\ agent[t] = [kind |-> "raise", error |-> S("")]
        /\ result[t].status = S("NO_TOOL")
        /\ result[t].fallback_used = PBool(TRUE)
        /\ result[t].error = S("")

====
